---------------------------- MODULE Spec2Model ----------------------------
(***************************************************************************)
(* Task Reward (Obsidian plugin): the event pipeline of TaskRewardPlugin   *)
(* (task-state tracker, undo protection, merge timer, throttle, dispatch)  *)
(* and the SoundManager loader / tiered playback.                          *)
(*                                                                         *)
(* Time is Date.now() in milliseconds.  The host's timers fire at their    *)
(* due time: the clock does not pass the due time of a pending timer, but  *)
(* handlers that arrive at that very instant may run before the callback.  *)
(***************************************************************************)
EXTENDS Integers, Sequences, FiniteSets, TLC

(***************************************************************************)
(* Bounds of the model                                                     *)
(***************************************************************************)
MaxTicks == 3           \* the clock advances at most this many times
MaxQueue == 2           \* longest pending batch explored (or one event per task)
MaxPlays == 2           \* play calls made to the sound manager
MaxBursts == 3    \* calls of confettiManager.burst

(***************************************************************************)
(* Program constants and value spaces                                      *)
(***************************************************************************)
StartTime == 1000       \* Date.now() when the plugin is loaded (ms, > 0)
Steps == {100, 1000}    \* the clock's short and long step (ms)
CleanupThreshold == 100 \* cleanupUndoProtection: ledger size that triggers pruning
CoordTtlMs == 1500      \* queueTaskEvent: validity window of a cached coordinate

Null == 0               \* null / undefined handle (falsy in JS)
Undefined == "undefined" \* ListItemCache.task of a list item that is no task

Files == {"a.md"}
Lines == 0..1             \* line numbers of the document
Keys == Files \X Lines  \* `${file.path}:${line}`
TimerIds == 1..3        \* handles returned by window.setTimeout

Markers == {" ", "X "}   \* raw ListItemCache.task strings
CheckedMarkers == {"x", "X "} \* the markers the host renders as a ticked box

NoCoords == [ok |-> FALSE, x |-> 0, y |-> 0]   \* null coordinate
Coord(x, y) == [ok |-> TRUE, x |-> x, y |-> y]

DEFAULT_SETTINGS ==
  [ enableSound |-> TRUE, enableConfetti |-> TRUE,
    globalMute |-> FALSE, disableConfetti |-> FALSE,
    soundVolume |-> 300,         \* in thousandths (0.3)
    confettiDuration |-> 800,
    mergeWindowMs |-> 300, throttleMs |-> 250, undoWindowMs |-> 1000 ]

VARIABLES
  now,                    \* Date.now()
  ticks,                  \* how often the clock has advanced
  loaded,                 \* the plugin is loaded (onload done, onunload not yet)
  settings,               \* this.settings
  taskEventQueue,         \* this.taskEventQueue
  mergeTimer,             \* this.mergeTimer (a handle, or Null)
  timers,                 \* the host's pending timeouts: handle -> due time
  lastFeedbackTime,       \* this.lastFeedbackTime
  undoProtection,         \* this.undoProtection: key -> time of uncheck
  taskStates,             \* this.taskStates: file -> (line -> checked)
  recentTaskCoordinates,  \* this.recentTaskCoordinates: key -> [coords, timestamp]
  fx,                     \* what the handler that ran last did (observation)
  docState,               \* the host's document: file -> (line -> box ticked)
  lastUncheck,            \* per key, when the document's box last went ticked -> unticked
  dropped,                \* the files that lost their metadata at least once
  lastAttempt,            \* when a merge timer last expired on a pending batch
  leftover                \* how many pending events a failed dispatch left behind

\* SoundManager
VARIABLES
  loading,                \* this.loading holds the loader's promise (not null)
  loadPromise,            \* state of that promise: "pending" or "fulfilled"
  loaderAt,               \* the candidate loadSound is about to try; 0 when it returned
  audioBuffer,            \* this.audioBuffer is set
  audioElement,           \* this.audioElement is set
  useWebAudio,            \* this.useWebAudio
  reactions,              \* callbacks registered with loading.then, not yet due
  jobs,                   \* microtasks ready to run
  requested,              \* the play calls made by callers, in order
  performed               \* the play calls that got past the loading check, in order

soundVars == << loading, loadPromise, loaderAt, audioBuffer, audioElement,
                useWebAudio, reactions, jobs, requested, performed >>

pluginVars == << now, ticks, loaded, settings, taskEventQueue, mergeTimer, timers,
                 lastFeedbackTime, undoProtection, taskStates,
                 recentTaskCoordinates, fx, docState, lastUncheck, dropped,
                 lastAttempt, leftover >>

VARIABLES
  canvas,                 \* this.canvas: the number of the surface, Null without one
  ctx,                    \* this.ctx is set (getContext('2d') gave a context)
  attached,               \* this.canvas.parentElement is set
  particles,              \* this.particles.length
  maxLife,                \* maxLife of the particles (config.duration)
  animationFrame,         \* this.animationFrame (a handle, or Null)
  frames,                 \* the host's pending frame callbacks: handle -> ms since
                          \* the startTime of the loop the callback belongs to
  surfaces,               \* how many surfaces setupCanvas has created
  bursts,                 \* how many times burst was called
  lastBurst               \* the last call of burst: its config, and what it found

confettiVars == << canvas, ctx, attached, particles, maxLife, animationFrame,
                   frames, surfaces, bursts, lastBurst >>

(***************************************************************************)
(* Finite maps                                                             *)
(***************************************************************************)
EmptyMap == [k \in {} |-> 0]
MapSet(m, k, v) == [j \in (DOMAIN m) \cup {k} |-> IF j = k THEN v ELSE m[j]]
MapDelete(m, k) == [j \in (DOMAIN m) \ {k} |-> m[j]]

(***************************************************************************)
(* Change notifications: cache.listItems in document order                 *)
(***************************************************************************)
RECURSIVE ItemsFrom(_, _)
ItemsFrom(m, l) ==
  IF l \notin Lines THEN << >>
  ELSE IF m[l] = "absent" THEN ItemsFrom(m, l + 1)
  ELSE << [line |-> l, task |-> m[l]] >> \o ItemsFrom(m, l + 1)

\* every line is a task; only the boxes differ
ToggleCaches ==
  { [present |-> TRUE, listItems |-> ItemsFrom(m, 0)] : m \in [Lines -> Markers] }
\* lines come and go, and some list items are no tasks
EditCaches ==
  { [present |-> TRUE, listItems |-> ItemsFrom(m, 0)] :
      m \in [Lines -> {" ", "x", Undefined, "absent"}] }
NullCache == [present |-> FALSE, listItems |-> << >>]

\* String.prototype.trim / toLowerCase on the marker strings
trim(s) == CASE s = " " -> "" [] s = "X " -> "X" [] OTHER -> s
toLowerCase(s) == CASE s = "X" -> "x" [] s = "X " -> "x " [] OTHER -> s

isChecked(task) ==
  IF task = Undefined THEN FALSE
  ELSE LET normalized == toLowerCase(trim(task))
       IN  normalized = "x" \/ normalized = "check" \/ normalized = "checked"

\* (cache.listItems ?? []).filter(item => item.task !== undefined)
TasksOf(cache) == SelectSeq(cache.listItems, LAMBDA item : item.task # Undefined)

(***************************************************************************)
(* Observation record: what the merge-timer callback that ran last did.    *)
(* Every other handler resets it.                                          *)
(***************************************************************************)
NoOrigin == [ok |-> FALSE, sumX |-> 0, sumY |-> 0, n |-> 1]
NoSound == [called |-> FALSE, intensity |-> "none", volume |-> 0]
NoBurst == [called |-> FALSE, intensity |-> "none", particleCount |-> 0,
            duration |-> 0, origin |-> NoOrigin]
NoFx == [ op |-> "none",           \* "flush", "throttled", "empty" after a callback
          batch |-> << >>,         \* the events the callback found pending
          sound |-> NoSound,       \* the call made to soundManager.playRewardSound
          burst |-> NoBurst,       \* the call made to confettiManager.burst
          threw |-> FALSE,         \* the callback ended by an exception
          reducedMotion |-> FALSE, \* what matchMedia reported to the callback
          prevAttempt |-> 0,       \* lastAttempt before the callback
          prevFlush |-> 0,         \* lastFeedbackTime before the callback
          leftover |-> 0,          \* leftover before the callback
          field |-> "none",        \* the timing field edited in the settings tab
          entry |-> << >> ]        \* the text entered into it

(***************************************************************************)
(* loadSettings: Object.assign({}, DEFAULT_SETTINGS, await loadData())     *)
(***************************************************************************)
loadSettings(data) ==
  [k \in DOMAIN DEFAULT_SETTINGS |->
     IF k \in DOMAIN data THEN data[k] ELSE DEFAULT_SETTINGS[k]]

\* data.json: nothing saved, or a throttle longer than the merge window
SavedTimings == { EmptyMap, [throttleMs |-> 500, undoWindowMs |-> 500] }
\* data.json: nothing saved, or the switch that the settings tab does not show
SavedSwitches == { EmptyMap, [disableConfetti |-> TRUE] }
\* the switches of the settings tab
Switches == {"enableSound", "enableConfetti", "globalMute"}

(***************************************************************************)
(* computeTaskCoordinates: the geometry the live view yields for a line.   *)
(* Either the file is not shown (null for every line) or each line has a   *)
(* box.                                                                    *)
(***************************************************************************)
HiddenView == [l \in Lines |-> NoCoords]
ShownView == [l \in Lines |-> Coord(100, 20 * (l + 1))]
GeoViews == { HiddenView, ShownView }

computeTaskCoordinates(geo, line) == geo[line]

(***************************************************************************)
(* cleanupUndoProtection(now)                                              *)
(***************************************************************************)
cleanupUndoProtection(undo, t) ==
  IF Cardinality(DOMAIN undo) <= CleanupThreshold THEN undo
  ELSE [k \in {j \in DOMAIN undo : ~(t - undo[j] > settings.undoWindowMs * 2)} |-> undo[k]]

(***************************************************************************)
(* window.setTimeout / clearTimeout: a handle that no pending timer uses   *)
(***************************************************************************)
setTimeout(pending, due) ==
  LET free == TimerIds \ DOMAIN pending
      id == CHOOSE i \in free : \A j \in free : i <= j
  IN  [id |-> id, timers |-> MapSet(pending, id, due)]

\* the running timer is not cancelled
clearTimeout_noop(pending, id) == pending

clearTimeout(pending, id) == MapDelete(pending, id)

(***************************************************************************)
(* queueTaskEvent(event), on the part st of the plugin's state             *)
(***************************************************************************)
\* the window of the merge timer is taken for the undo window
undoSuppresses_mergeWindow(lastUndoTime, t) ==
  lastUndoTime # Null /\ t - lastUndoTime < settings.mergeWindowMs

undoSuppresses(lastUndoTime, t) ==
  lastUndoTime # Null /\ t - lastUndoTime < settings.undoWindowMs

\* the timer is due at once
mergeDue_immediate(t) == t

\* the timer runs for the throttle interval
mergeDue_throttle(t) == t + settings.throttleMs

mergeDue(t) == t + settings.mergeWindowMs

\* the cache entry is left in place
queueTaskEvent_keepsCache(st, event, geo) ==
  LET key == << event.file, event.line >>
      hasRecent == key \in DOMAIN st.recent
      cachedCoords == IF hasRecent /\ now - st.recent[key].timestamp < CoordTtlMs
                      THEN st.recent[key].coords ELSE NoCoords
      coords == IF cachedCoords.ok THEN cachedCoords
                ELSE computeTaskCoordinates(geo, event.line)
      cleared == IF st.mergeTimer # Null THEN clearTimeout(st.timers, st.mergeTimer)
                 ELSE st.timers
      started == setTimeout(cleared, mergeDue(now))
  IN  [st EXCEPT !.queue = Append(st.queue, [event EXCEPT !.coords = coords]),
                 !.timers = started.timers,
                 !.mergeTimer = started.id]

queueTaskEvent(st, event, geo) ==
  LET key == << event.file, event.line >>
      hasRecent == key \in DOMAIN st.recent
      cachedCoords == IF hasRecent /\ now - st.recent[key].timestamp < CoordTtlMs
                      THEN st.recent[key].coords ELSE NoCoords
      coords == IF cachedCoords.ok THEN cachedCoords
                ELSE computeTaskCoordinates(geo, event.line)
      enrichedEvent == [event EXCEPT !.coords = coords]
      cleared == IF st.mergeTimer # Null THEN clearTimeout(st.timers, st.mergeTimer)
                 ELSE st.timers
      started == setTimeout(cleared, mergeDue(now))
  IN  [st EXCEPT !.recent = MapDelete(st.recent, key),
                 !.queue = Append(st.queue, enrichedEvent),
                 !.timers = started.timers,
                 !.mergeTimer = started.id]

\* the uncheck is not recorded
recordUncheck_skips(undo, taskKey, t) == undo

\* this.undoProtection.set(taskKey, now)
recordUncheck(undo, taskKey, t) == MapSet(undo, taskKey, t)

(***************************************************************************)
(* handleTaskMetadataChange: the loop over the tasks of the notification   *)
(***************************************************************************)
RECURSIVE diffTasks(_, _, _, _, _, _)
diffTasks(tasks, i, file, previousStates, st, geo) ==
  IF i > Len(tasks) THEN st
  ELSE
    LET line == tasks[i].line
        checkedNow == isChecked(tasks[i].task)
        wasChecked == IF line \in DOMAIN previousStates THEN previousStates[line] ELSE FALSE
        taskKey == << file, line >>
        st1 == [st EXCEPT !.currentStates = MapSet(st.currentStates, line, checkedNow)]
        lastUndoTime == IF taskKey \in DOMAIN st.undo THEN st.undo[taskKey] ELSE Null
        st2 ==
          IF ~wasChecked /\ checkedNow THEN
            IF undoSuppresses(lastUndoTime, now)
            THEN st1
            ELSE queueTaskEvent(
                   [st1 EXCEPT !.undo = cleanupUndoProtection(st1.undo, now)],
                   [file |-> file, line |-> line, checked |-> TRUE,
                    timestamp |-> now, coords |-> NoCoords],
                   geo)
          ELSE IF wasChecked /\ ~checkedNow THEN
            [st1 EXCEPT !.undo = recordUncheck(st1.undo, taskKey, now)]
          ELSE st1
    IN  diffTasks(tasks, i + 1, file, previousStates, st2, geo)

\* the first observation: the snapshot of the notification's tasks
seedStates(tasks) ==
  [l \in {tasks[i].line : i \in 1..Len(tasks)} |->
     \E i \in 1..Len(tasks) : tasks[i].line = l /\ isChecked(tasks[i].task)]

\* the host's view of the same notification: which boxes are ticked
TickedBoxes(cache) ==
  LET tasks == TasksOf(cache)
  IN  [l \in {tasks[i].line : i \in 1..Len(tasks)} |->
         \E i \in 1..Len(tasks) : tasks[i].line = l /\ tasks[i].task \in CheckedMarkers]

UncheckedBoxes(file, cache) ==
  IF file \notin DOMAIN docState THEN {}
  ELSE { l \in DOMAIN TickedBoxes(cache) :
           /\ l \in DOMAIN docState[file]
           /\ docState[file][l]
           /\ ~TickedBoxes(cache)[l] }

\* the first observation is diffed like any other
firstObservation_never(file) == FALSE

\* !this.taskStates.has(file.path)
firstObservation(file) == file \notin DOMAIN taskStates

\* the snapshot of the file is kept
dropStates_keeps(states, file) == states

\* this.taskStates.delete(file.path)
dropStates(states, file) == MapDelete(states, file)

handleTaskMetadataChange(file, cache, geo) ==
  /\ loaded
  /\ fx' = NoFx
  /\ IF ~cache.present THEN
       /\ taskStates' = dropStates(taskStates, file)
       /\ docState' = MapDelete(docState, file)
       /\ dropped' = IF file \in DOMAIN docState THEN dropped \cup {file} ELSE dropped
       /\ UNCHANGED << taskEventQueue, mergeTimer, timers, undoProtection,
                       recentTaskCoordinates, lastUncheck >>
     ELSE
       LET tasks == TasksOf(cache)
       IN
       /\ docState' = MapSet(docState, file, TickedBoxes(cache))
       /\ lastUncheck' = [k \in Keys |->
                            IF k[1] = file /\ k[2] \in UncheckedBoxes(file, cache)
                            THEN now ELSE lastUncheck[k]]
       /\ UNCHANGED dropped
       /\ IF firstObservation(file) THEN
            /\ taskStates' = MapSet(taskStates, file, seedStates(tasks))
            /\ UNCHANGED << taskEventQueue, mergeTimer, timers, undoProtection,
                            recentTaskCoordinates >>
          ELSE
            LET st0 == [ undo |-> undoProtection, queue |-> taskEventQueue,
                         mergeTimer |-> mergeTimer, timers |-> timers,
                         recent |-> recentTaskCoordinates,
                         currentStates |-> EmptyMap ]
                previousStates == IF file \in DOMAIN taskStates THEN taskStates[file]
                                  ELSE EmptyMap
                st == diffTasks(tasks, 1, file, previousStates, st0, geo)
            IN
            /\ Len(st.queue) <= IF Len(tasks) > MaxQueue THEN Len(tasks) ELSE MaxQueue
            /\ taskStates' = MapSet(taskStates, file, st.currentStates)
            /\ undoProtection' = st.undo
            /\ taskEventQueue' = st.queue
            /\ mergeTimer' = st.mergeTimer
            /\ timers' = st.timers
            /\ recentTaskCoordinates' = st.recent
  /\ UNCHANGED << now, ticks, loaded, settings, lastFeedbackTime,
                  lastAttempt, leftover >>
  /\ UNCHANGED soundVars
  /\ UNCHANGED confettiVars

(***************************************************************************)
(* getFeedbackProfile(count), getParticleCount, getConfettiOrigin,         *)
(* triggerFeedback                                                         *)
(***************************************************************************)
getParticleCount(intensity) == 150

\* the mute switch is ignored
muted_never == FALSE

muted == settings.globalMute

getFeedbackProfile(count, reducedMotion) ==
  LET intensity == "heavy"
  IN  [ sound |-> IF muted THEN NoSound
                  ELSE [called |-> TRUE, intensity |-> intensity,
                        volume |-> settings.soundVolume],
        confetti |-> IF reducedMotion \/ settings.disableConfetti THEN NoBurst
                     ELSE [NoBurst EXCEPT !.called = TRUE,
                                          !.intensity = intensity,
                                          !.particleCount = getParticleCount(intensity),
                                          !.duration = settings.confettiDuration] ]

RECURSIVE SumCoords(_, _)
SumCoords(coords, i) ==
  IF i > Len(coords) THEN [x |-> 0, y |-> 0]
  ELSE LET rest == SumCoords(coords, i + 1)
       IN  [x |-> coords[i].x + rest.x, y |-> coords[i].y + rest.y]

\* the sums are divided by the number of events, not of coordinates
getConfettiOrigin_overAllEvents(events, geo) ==
  LET resolved == [i \in 1..Len(events) |->
                     IF ~events[i].coords.ok
                     THEN computeTaskCoordinates(geo, events[i].line)
                     ELSE events[i].coords]
      coords == SelectSeq(resolved, LAMBDA c : c.ok)
      sum == SumCoords(coords, 1)
  IN  IF Len(coords) = 0 THEN NoOrigin
      ELSE [ok |-> TRUE, sumX |-> sum.x, sumY |-> sum.y, n |-> Len(events)]

\* the result stands for the exact quotients sumX / n and sumY / n
getConfettiOrigin(events, geo) ==
  LET resolved == [i \in 1..Len(events) |->
                     IF ~events[i].coords.ok
                     THEN computeTaskCoordinates(geo, events[i].line)
                     ELSE events[i].coords]
      coords == SelectSeq(resolved, LAMBDA c : c.ok)
      sum == SumCoords(coords, 1)
  IN  IF Len(coords) = 0 THEN NoOrigin
      ELSE [ok |-> TRUE, sumX |-> sum.x, sumY |-> sum.y, n |-> Len(coords)]

\* fault: the driver whose call raises ("none": neither does)
Faults == {"none", "sound", "burst"}

triggerFeedback(profile, events, geo, fault) ==
  LET playSound == profile.sound.called /\ settings.enableSound
      showConfetti == profile.confetti.called /\ settings.enableConfetti
      soundThrows == playSound /\ fault = "sound"
      burstReached == showConfetti /\ ~soundThrows
  IN  [ sound |-> IF playSound THEN profile.sound ELSE NoSound,
        burst |-> IF burstReached
                  THEN [profile.confetti EXCEPT !.origin = getConfettiOrigin(events, geo)]
                  ELSE NoBurst,
        threw |-> soundThrows \/ (burstReached /\ fault = "burst") ]

(***************************************************************************)
(* processMergedEvents: the callback of the merge timer with handle id     *)
(***************************************************************************)
\* the throttle never applies
throttled_never(t) == FALSE

throttled(t) == t - lastFeedbackTime < settings.throttleMs

processMergedEvents(id, reducedMotion, geo, fault) ==
  /\ id \in DOMAIN timers
  /\ timers[id] <= now
  /\ timers' = MapDelete(timers, id)
  /\ LET events == taskEventQueue
         count == Len(events)
         seen == [NoFx EXCEPT !.batch = events, !.reducedMotion = reducedMotion,
                              !.prevAttempt = lastAttempt, !.prevFlush = lastFeedbackTime,
                              !.leftover = leftover]
     IN
     /\ lastAttempt' = IF count > 0 THEN now ELSE lastAttempt
     /\ IF throttled(now) THEN
          /\ fault = "none"
          /\ taskEventQueue' = << >>
          /\ mergeTimer' = Null
          /\ fx' = [seen EXCEPT !.op = "throttled"]
          /\ leftover' = 0
          /\ UNCHANGED lastFeedbackTime
        ELSE IF count = 0 THEN
          /\ fault = "none"
          /\ mergeTimer' = Null
          /\ fx' = [seen EXCEPT !.op = "empty"]
          /\ UNCHANGED << taskEventQueue, lastFeedbackTime, leftover >>
        ELSE
          LET profile == getFeedbackProfile(count, reducedMotion)
              out == triggerFeedback(profile, events, geo, fault)
          IN
          /\ fault # "none" => out.threw
          /\ fx' = [seen EXCEPT !.op = "flush", !.sound = out.sound,
                                !.burst = out.burst, !.threw = out.threw]
          /\ IF out.threw
             THEN /\ leftover' = count
                  /\ UNCHANGED << taskEventQueue, mergeTimer, lastFeedbackTime >>
             ELSE /\ taskEventQueue' = << >>
                  /\ mergeTimer' = Null
                  /\ lastFeedbackTime' = now
                  /\ leftover' = 0
  /\ UNCHANGED << now, ticks, loaded, settings, undoProtection, taskStates,
                  recentTaskCoordinates, docState, lastUncheck, dropped >>
  /\ UNCHANGED soundVars
  /\ UNCHANGED confettiVars

(***************************************************************************)
(* onload: the handler of the document's 'change' events.  A task checkbox *)
(* of the active file was clicked; coords is the centre of its rectangle.  *)
(***************************************************************************)
checkboxChange(file, line, coords) ==
  /\ loaded
  /\ recentTaskCoordinates' =
        MapSet(recentTaskCoordinates, << file, line >>,
               [coords |-> coords, timestamp |-> now])
  /\ fx' = NoFx
  /\ UNCHANGED << now, ticks, loaded, settings, taskEventQueue, mergeTimer, timers,
                  lastFeedbackTime, undoProtection, taskStates, docState,
                  lastUncheck, dropped, lastAttempt, leftover >>
  /\ UNCHANGED soundVars
  /\ UNCHANGED confettiVars

(***************************************************************************)
(* Settings tab: the three switches it offers                              *)
(***************************************************************************)
setSwitch(name, value) ==
  /\ loaded
  /\ settings' = [settings EXCEPT ![name] = value]
  /\ fx' = NoFx
  /\ UNCHANGED << now, ticks, loaded, taskEventQueue, mergeTimer, timers,
                  lastFeedbackTime, undoProtection, taskStates,
                  recentTaskCoordinates, docState, lastUncheck, dropped,
                  lastAttempt, leftover >>
  /\ UNCHANGED soundVars
  /\ UNCHANGED confettiVars

(***************************************************************************)
(* Settings tab: the two sliders.  The volume slider runs from 0 to 100 in *)
(* steps of 5 and stores value / 100; the duration slider runs from 400 to *)
(* 1200 in steps of 100.                                                   *)
(***************************************************************************)
setVolume(value) ==
  /\ loaded
  /\ settings' = [settings EXCEPT !.soundVolume = value * 10]
  /\ fx' = NoFx
  /\ UNCHANGED << now, ticks, loaded, taskEventQueue, mergeTimer, timers,
                  lastFeedbackTime, undoProtection, taskStates,
                  recentTaskCoordinates, docState, lastUncheck, dropped,
                  lastAttempt, leftover >>
  /\ UNCHANGED soundVars
  /\ UNCHANGED confettiVars

setDuration(value) ==
  /\ loaded
  /\ settings' = [settings EXCEPT !.confettiDuration = value]
  /\ fx' = NoFx
  /\ UNCHANGED << now, ticks, loaded, taskEventQueue, mergeTimer, timers,
                  lastFeedbackTime, undoProtection, taskStates,
                  recentTaskCoordinates, docState, lastUncheck, dropped,
                  lastAttempt, leftover >>
  /\ UNCHANGED soundVars
  /\ UNCHANGED confettiVars

(***************************************************************************)
(* Settings tab: the three text fields of the timings.  An entry is a      *)
(* sequence of characters.  parseInt skips leading blanks, reads a sign    *)
(* and then the longest run of decimal digits, and gives NaN when there is *)
(* no digit (no entry of the model starts with 0x, which parseInt would    *)
(* read as hexadecimal).                                                   *)
(***************************************************************************)
Digits == << "0", "1", "2", "3", "4", "5", "6", "7", "8", "9" >>
IsDigit(ch) == \E d \in 1..10 : Digits[d] = ch
DigitOf(ch) == (CHOOSE d \in 1..10 : Digits[d] = ch) - 1

RECURSIVE skipBlanks(_)
skipBlanks(text) ==
  IF text # << >> /\ Head(text) = " " THEN skipBlanks(Tail(text)) ELSE text

RECURSIVE leadingDigits(_)
leadingDigits(text) ==
  IF text # << >> /\ IsDigit(Head(text))
  THEN << Head(text) >> \o leadingDigits(Tail(text))
  ELSE << >>

RECURSIVE valueOf(_, _)
valueOf(digits, acc) ==
  IF digits = << >> THEN acc
  ELSE valueOf(Tail(digits), acc * 10 + DigitOf(Head(digits)))

isNaN(num) == num.nan

parseInt(text) ==
  LET t == skipBlanks(text)
      signed == t # << >> /\ Head(t) \in {"+", "-"}
      negative == signed /\ Head(t) = "-"
      digits == leadingDigits(IF signed THEN Tail(t) ELSE t)
  IN  IF digits = << >> THEN [nan |-> TRUE, value |-> 0]
      ELSE [nan |-> FALSE,
            value |-> IF negative THEN 0 - valueOf(digits, 0) ELSE valueOf(digits, 0)]

\* onChange of the text field of settings[name], whose range is lo..hi
setTiming(name, lo, hi, value) ==
  /\ loaded
  /\ LET num == parseInt(value)
     IN  settings' = IF ~isNaN(num) /\ num.value >= lo /\ num.value <= hi
                     THEN [settings EXCEPT ![name] = num.value]
                     ELSE settings
  /\ fx' = [NoFx EXCEPT !.op = "edit", !.field = name, !.entry = value]
  /\ UNCHANGED << now, ticks, loaded, taskEventQueue, mergeTimer, timers,
                  lastFeedbackTime, undoProtection, taskStates,
                  recentTaskCoordinates, docState, lastUncheck, dropped,
                  lastAttempt, leftover >>
  /\ UNCHANGED soundVars
  /\ UNCHANGED confettiVars

\* the three fields and their ranges
TimingFields ==
  { [name |-> "mergeWindowMs", lo |-> 100, hi |-> 1000],
    [name |-> "throttleMs", lo |-> 100, hi |-> 1000],
    [name |-> "undoWindowMs", lo |-> 500, hi |-> 3000] }

(***************************************************************************)
(* Settings tab: the two test buttons.  The click handler calls            *)
(* soundManager.playRewardSound and confettiManager.burst itself; the two  *)
(* calls are recorded in fx, as those of a flush are.                      *)
(***************************************************************************)
testButton(op, intensity, particleCount) ==
  /\ loaded
  /\ fx' = [NoFx EXCEPT
              !.op = op,
              !.sound = [called |-> TRUE, intensity |-> intensity,
                         volume |-> settings.soundVolume],
              !.burst = [NoBurst EXCEPT !.called = TRUE,
                                        !.intensity = intensity,
                                        !.particleCount = particleCount,
                                        !.duration = settings.confettiDuration]]
  /\ UNCHANGED << now, ticks, loaded, settings, taskEventQueue, mergeTimer, timers,
                  lastFeedbackTime, undoProtection, taskStates,
                  recentTaskCoordinates, docState, lastUncheck, dropped,
                  lastAttempt, leftover >>
  /\ UNCHANGED soundVars
  /\ UNCHANGED confettiVars

testSingleCompletion == testButton("testSingle", "light", 15)

testBatchCompletion == testButton("testBatch", "heavy", 50)

(***************************************************************************)
(* The clock.  It advances by a short or a long step, but not beyond the   *)
(* due time of a pending timer: the callback runs first.                   *)
(***************************************************************************)
Min(a, b) == IF a <= b THEN a ELSE b

RECURSIVE EarliestDue(_, _)
EarliestDue(ids, bound) ==
  IF ids = {} THEN bound
  ELSE LET id == CHOOSE i \in ids : TRUE
       IN  EarliestDue(ids \ {id}, Min(bound, timers[id]))

Tick(step) ==
  /\ ticks < MaxTicks
  /\ \A id \in DOMAIN timers : timers[id] > now
  /\ now' = EarliestDue(DOMAIN timers, now + step)
  /\ ticks' = ticks + 1
  /\ fx' = NoFx
  /\ UNCHANGED << loaded, settings, taskEventQueue, mergeTimer, timers,
                  lastFeedbackTime, undoProtection, taskStates,
                  recentTaskCoordinates, docState, lastUncheck, dropped,
                  lastAttempt, leftover >>
  /\ UNCHANGED soundVars
  /\ UNCHANGED confettiVars

(***************************************************************************)
(* SoundManager.  Volumes are in thousandths of full scale.                *)
(***************************************************************************)
Intensities == {"light", "medium", "heavy"}
Volumes == {300, 1000}
Candidates == << "reward.m4a", "reward.mp3" >>

\* what the platform does with one tier at play time
TierOutcomes == {"ok", "throws", "rejects"}

volumeMultiplier(intensity) ==      \* in tenths
  IF intensity = "light" THEN 8 ELSE IF intensity = "medium" THEN 10 ELSE 12

adjustedVolume(intensity, volume) == Min((volume * volumeMultiplier(intensity)) \div 10, 1000)

\* playSynthesizedSound: the tone is tried; a failure is caught and logged
playSynthesizedSound(p, volume, synth) ==
  [p EXCEPT !.tiers = Append(p.tiers, "synth"),
            !.sounded = (synth = "ok"),
            !.applied = volume]

\* playHTML5Audio: nothing at all without an element
playHTML5Audio(p, volume, html, synth) ==
  IF ~audioElement THEN p
  ELSE LET q == [p EXCEPT !.tiers = Append(p.tiers, "element")]
       IN  IF html = "ok" THEN [q EXCEPT !.sounded = TRUE, !.applied = volume]
           ELSE playSynthesizedSound(q, volume, synth)

\* playWebAudio: startPlayback throws, or resume() of a suspended context rejects
playWebAudio(p, volume, web, html, synth) ==
  IF ~audioBuffer THEN p
  ELSE LET q == [p EXCEPT !.tiers = Append(p.tiers, "buffer")]
       IN  IF web = "ok" THEN [q EXCEPT !.sounded = TRUE, !.applied = volume]
           ELSE playHTML5Audio([q EXCEPT !.webOff = (web = "rejects")], volume, html, synth)

\* the part of playRewardSound after the loading check
playNow(req, web, html, synth) ==
  LET p0 == [id |-> req.id, tiers |-> << >>, sounded |-> FALSE, applied |-> 0,
             webOff |-> FALSE]
      adjusted == adjustedVolume(req.intensity, req.volume)
  IN  IF useWebAudio /\ audioBuffer THEN playWebAudio(p0, adjusted, web, html, synth)
      ELSE IF audioElement THEN playHTML5Audio(p0, adjusted, html, synth)
      ELSE playSynthesizedSound(p0, req.volume, synth)

\* the call plays at once, whatever the loader is doing
playRewardSound_noDefer(req, rest, web, html, synth) ==
  LET p == playNow(req, web, html, synth)
  IN  /\ performed' = Append(performed, [id |-> p.id, tiers |-> p.tiers,
                                          sounded |-> p.sounded, applied |-> p.applied])
      /\ useWebAudio' = (useWebAudio /\ ~p.webOff)
      /\ jobs' = rest
      /\ UNCHANGED reactions

\* playRewardSound(intensity, volume); req also carries the caller's call number,
\* rest is the microtask queue the call finds
playRewardSound(req, rest, web, html, synth) ==
  IF loading THEN
    /\ IF loadPromise = "pending"
       THEN reactions' = Append(reactions, req) /\ jobs' = rest
       ELSE jobs' = Append(rest, req) /\ UNCHANGED reactions
    /\ UNCHANGED << performed, useWebAudio >>
  ELSE
    LET p == playNow(req, web, html, synth)
    IN  /\ performed' = Append(performed, [id |-> p.id, tiers |-> p.tiers,
                                            sounded |-> p.sounded, applied |-> p.applied])
        /\ useWebAudio' = (useWebAudio /\ ~p.webOff)
        /\ jobs' = rest
        /\ UNCHANGED reactions

\* a caller (a flush, a test button) plays a sound
PlayCall(intensity, volume, web, html, synth) ==
  /\ jobs = << >>
  /\ Len(requested) < MaxPlays
  /\ LET req == [id |-> Len(requested) + 1, intensity |-> intensity, volume |-> volume]
     IN  /\ requested' = Append(requested, [id |-> req.id,
                                           inFlight |-> (loadPromise = "pending"),
                                           intensity |-> intensity,
                                           volume |-> volume])
         /\ playRewardSound(req, jobs, web, html, synth)
  /\ UNCHANGED << loading, loadPromise, loaderAt, audioBuffer, audioElement >>
  /\ UNCHANGED pluginVars
  /\ UNCHANGED confettiVars

\* the microtask of a deferred call: () => this.playRewardSound(intensity, volume)
RunJob(web, html, synth) ==
  /\ jobs # << >>
  /\ playRewardSound(Head(jobs), Tail(jobs), web, html, synth)
  /\ UNCHANGED << loading, loadPromise, loaderAt, audioBuffer, audioElement, requested >>
  /\ UNCHANGED pluginVars
  /\ UNCHANGED confettiVars

(***************************************************************************)
(* loadSound: one pass of the loop over the candidates.                    *)
(*   "missing"  the asset does not exist                                   *)
(*   "buffer"   decoding succeeded                                         *)
(*   "element"  decoding failed, the playback element was set up           *)
(*   "failed"   decoding and the element failed; the next candidate is     *)
(*              tried                                                      *)
(*   "thrown"   an exception reached the outer catch                       *)
(***************************************************************************)
LoadOutcomes == {"missing", "buffer", "element", "failed", "thrown"}

loadSound(outcome) ==
  /\ loaderAt \in 1..Len(Candidates)
  /\ jobs = << >>
  /\ audioBuffer' = CASE outcome = "buffer" -> TRUE
                      [] outcome \in {"element", "failed"} -> FALSE
                      [] OTHER -> audioBuffer
  /\ audioElement' = CASE outcome = "element" -> TRUE
                       [] outcome = "failed" -> FALSE
                       [] OTHER -> audioElement
  /\ useWebAudio' = CASE outcome = "buffer" -> TRUE
                      [] outcome \in {"element", "failed"} -> FALSE
                      [] OTHER -> useWebAudio
  /\ IF outcome \in {"missing", "failed"} /\ loaderAt < Len(Candidates)
     THEN /\ loaderAt' = loaderAt + 1
          /\ UNCHANGED << loading, loadPromise, reactions, jobs >>
     ELSE \* finally { this.loading = null }, then the promise is fulfilled
          /\ loaderAt' = 0
          /\ loading' = FALSE
          /\ loadPromise' = "fulfilled"
          /\ jobs' = jobs \o reactions
          /\ reactions' = << >>
  /\ UNCHANGED << requested, performed >>
  /\ UNCHANGED pluginVars
  /\ UNCHANGED confettiVars

(***************************************************************************)
(* ConfettiManager.  All particles of a burst share maxLife and the        *)
(* startTime of the loop that animates them, so the particle set is its    *)
(* size, and a pending frame callback is the time since that startTime.    *)
(***************************************************************************)
FrameIds == 1..3        \* handles returned by requestAnimationFrame

\* the manager's fields, as one record
Confetti ==
  [ canvas |-> canvas, ctx |-> ctx, attached |-> attached, particles |-> particles,
    maxLife |-> maxLife, animationFrame |-> animationFrame, frames |-> frames,
    surfaces |-> surfaces ]

\* this.animationFrame = requestAnimationFrame(animate), in a loop of the given age
requestAnimationFrame(c, age) ==
  LET id == CHOOSE h \in FrameIds :
              /\ h \notin DOMAIN c.frames
              /\ h # c.animationFrame
              /\ \A g \in FrameIds :
                    (g \notin DOMAIN c.frames /\ g # c.animationFrame) => h <= g
  IN  [c EXCEPT !.frames = MapSet(c.frames, id, age), !.animationFrame = id]

cancelAnimationFrame(pending, id) ==
  IF id \in DOMAIN pending THEN MapDelete(pending, id) ELSE pending

\* setupCanvas: gotContext is what canvas.getContext('2d') returns
setupCanvas(c, gotContext) ==
  IF c.canvas # Null THEN c
  ELSE [c EXCEPT !.canvas = c.surfaces + 1, !.surfaces = c.surfaces + 1,
                 !.ctx = gotContext, !.attached = FALSE]

ensureCanvas(c, gotContext) ==
  IF c.canvas = Null THEN setupCanvas(c, gotContext) ELSE c

stopAnimation(c) ==
  LET c1 == IF c.animationFrame # Null
            THEN [c EXCEPT !.frames = cancelAnimationFrame(c.frames, c.animationFrame),
                           !.animationFrame = Null]
            ELSE c
  IN  IF c1.canvas # Null /\ c1.attached THEN [c1 EXCEPT !.attached = FALSE] ELSE c1

\* the frame callback of the previous loop is left pending
startAnimation_noCancel(c) == requestAnimationFrame(c, 0)

startAnimation(c) ==
  LET c1 == IF c.animationFrame # Null
            THEN [c EXCEPT !.frames = cancelAnimationFrame(c.frames, c.animationFrame)]
            ELSE c
  IN  requestAnimationFrame(c1, 0)

\* particle.life = 1 - elapsed / particle.maxLife; life <= 0
lifeExpired(elapsed, life) == elapsed >= life

SetConfetti(c) ==
  /\ canvas' = c.canvas
  /\ ctx' = c.ctx
  /\ attached' = c.attached
  /\ particles' = c.particles
  /\ maxLife' = c.maxLife
  /\ animationFrame' = c.animationFrame
  /\ frames' = c.frames
  /\ surfaces' = c.surfaces

\* burst(config)
burst(config, gotContext) ==
  /\ loaded
  /\ bursts < MaxBursts
  /\ bursts' = bursts + 1
  /\ lastBurst' = [ particleCount |-> config.particleCount,
                    duration |-> config.duration,
                    animating |-> (attached /\ particles > 0 /\ frames # EmptyMap),
                    before |-> particles ]
  /\ LET c1 == ensureCanvas(Confetti, gotContext)
         c2 == [c1 EXCEPT !.particles = config.particleCount,
                          !.maxLife = config.duration]
         c3 == IF c2.canvas # Null /\ ~c2.attached
               THEN [c2 EXCEPT !.attached = TRUE] ELSE c2
     IN  SetConfetti(startAnimation(c3))
  /\ UNCHANGED pluginVars
  /\ UNCHANGED soundVars

\* animate(currentTime): the frame callback with handle id runs dt ms after the
\* previous frame of its loop (or after startAnimation)
animate(id, dt) ==
  /\ id \in DOMAIN frames
  /\ LET elapsed == frames[id] + dt
         c0 == [Confetti EXCEPT !.frames = MapDelete(frames, id)]
     IN  IF ~c0.ctx \/ c0.canvas = Null THEN SetConfetti(c0)
         ELSE LET live == IF lifeExpired(elapsed, c0.maxLife) THEN 0 ELSE c0.particles
                  c1 == [c0 EXCEPT !.particles = live]
              IN  IF live > 0 THEN SetConfetti(requestAnimationFrame(c1, elapsed))
                  ELSE SetConfetti(stopAnimation(c1))
  /\ UNCHANGED << bursts, lastBurst >>
  /\ UNCHANGED pluginVars
  /\ UNCHANGED soundVars

\* ConfettiManager.cleanup
cleanup(c) ==
  LET c1 == stopAnimation(c)
  IN  [c1 EXCEPT !.canvas = Null, !.ctx = FALSE, !.particles = 0, !.attached = FALSE]

(***************************************************************************)
(* onunload: both drivers are cleaned up and the merge timer is cancelled; *)
(* the host drops the handlers the plugin registered.                      *)
(***************************************************************************)
onunload ==
  /\ loaded
  /\ loaded' = FALSE
  /\ audioBuffer' = FALSE
  /\ audioElement' = FALSE
  /\ SetConfetti(cleanup(Confetti))
  /\ timers' = IF mergeTimer # Null THEN clearTimeout(timers, mergeTimer) ELSE timers
  /\ fx' = NoFx
  /\ UNCHANGED << now, ticks, settings, taskEventQueue, mergeTimer, lastFeedbackTime,
                  undoProtection, taskStates, recentTaskCoordinates, docState,
                  lastUncheck, dropped, lastAttempt, leftover >>
  /\ UNCHANGED << loading, loadPromise, loaderAt, useWebAudio, reactions, jobs,
                  requested, performed, bursts, lastBurst >>

(***************************************************************************)
(* Initial states: the plugin after onload, the sound manager after its    *)
(* constructor                                                             *)
(***************************************************************************)
InitPlugin(saved) ==
  /\ now = StartTime
  /\ ticks = 0
  /\ loaded = TRUE
  /\ settings \in { loadSettings(data) : data \in saved }
  /\ taskEventQueue = << >>
  /\ mergeTimer = Null
  /\ timers = EmptyMap
  /\ lastFeedbackTime = 0
  /\ undoProtection = EmptyMap
  /\ taskStates = EmptyMap
  /\ recentTaskCoordinates = EmptyMap
  /\ fx = NoFx
  /\ docState = EmptyMap
  /\ lastUncheck = [k \in Keys |-> 0]
  /\ dropped = {}
  /\ lastAttempt = 0
  /\ leftover = 0

\* suspended: loadSound is waiting at an await when the constructor returns;
\* otherwise it ran to its end first, and the constructor stored its promise
\* after the finally block had cleared the field
InitSound(suspended) ==
  /\ loading = TRUE
  /\ loadPromise = IF suspended THEN "pending" ELSE "fulfilled"
  /\ loaderAt = IF suspended THEN 1 ELSE 0
  /\ audioBuffer = FALSE
  /\ audioElement = FALSE
  /\ useWebAudio = TRUE
  /\ reactions = << >>
  /\ jobs = << >>
  /\ requested = << >>
  /\ performed = << >>

\* the constructor has called setupCanvas
InitConfetti(gotContext) ==
  /\ canvas = 1
  /\ ctx = gotContext
  /\ attached = FALSE
  /\ particles = 0
  /\ maxLife = 0
  /\ animationFrame = Null
  /\ frames = EmptyMap
  /\ surfaces = 1
  /\ bursts = 0
  /\ lastBurst = [particleCount |-> 0, duration |-> 0, animating |-> FALSE, before |-> 0]

vars == << pluginVars, soundVars, confettiVars >>

(***************************************************************************)
(* Spec: the event pipeline while the user ticks and unticks boxes         *)
(***************************************************************************)
Init == InitPlugin(SavedTimings) /\ InitSound(TRUE) /\ InitConfetti(TRUE)

\* the file is edited in a view that yields no geometry; no reduced motion;
\* a driver may raise an exception when it is called
BoxesToggled ==
  \E file \in Files, cache \in ToggleCaches :
     handleTaskMetadataChange(file, cache, HiddenView)

MergeTimerFires ==
  \E id \in TimerIds, fault \in Faults :
     processMergedEvents(id, FALSE, HiddenView, fault)

ClockAdvances == \E step \in Steps : Tick(step)

\* time passes until the merge timer is due, or for a second
LongPause == Tick(1000)

Next ==
  \/ BoxesToggled
  \/ MergeTimerFires
  \/ ClockAdvances

Spec == Init /\ [][Next]_vars

(***************************************************************************)
(* SpecEdits: the document is edited: lines come and go, list items that   *)
(* are no tasks appear, and the host may report the file without metadata. *)
(***************************************************************************)
InitEdits == InitPlugin({EmptyMap}) /\ InitSound(TRUE) /\ InitConfetti(TRUE)

FileEdited ==
  \E file \in Files, cache \in EditCaches :
     handleTaskMetadataChange(file, cache, HiddenView)

MetadataMissing ==
  \E file \in Files : handleTaskMetadataChange(file, NullCache, HiddenView)

MergeTimerFiresQuietly ==
  \E id \in TimerIds : processMergedEvents(id, FALSE, HiddenView, "none")

\* the editing session is one pause shorter than the others
PauseBetweenEdits == ticks + 1 < MaxTicks /\ Tick(1000)

NextEdits ==
  \/ FileEdited
  \/ MetadataMissing
  \/ MergeTimerFiresQuietly
  \/ PauseBetweenEdits

SpecEdits == InitEdits /\ [][NextEdits]_vars

(***************************************************************************)
(* SpecGating: the switches are flipped in the settings tab while boxes    *)
(* are ticked, and the system may ask for reduced motion.                  *)
(***************************************************************************)
InitGating == InitPlugin(SavedSwitches) /\ InitSound(TRUE) /\ InitConfetti(TRUE)

SwitchFlipped == \E name \in Switches, value \in BOOLEAN : setSwitch(name, value)

MergeTimerFiresAnyMotion ==
  \E id \in TimerIds, reducedMotion \in BOOLEAN :
     processMergedEvents(id, reducedMotion, HiddenView, "none")

NextGating ==
  \/ BoxesToggled
  \/ SwitchFlipped
  \/ MergeTimerFiresAnyMotion
  \/ LongPause

SpecGating == InitGating /\ [][NextGating]_vars

(***************************************************************************)
(* SpecSound: callers play sounds while the loader works through the       *)
(* candidates; the loader may also have finished before the constructor    *)
(* returned.                                                               *)
(***************************************************************************)
InitSounds ==
  InitPlugin({EmptyMap}) /\ (InitSound(TRUE) \/ InitSound(FALSE)) /\ InitConfetti(TRUE)

PlayCalled ==
  \E intensity \in Intensities, volume \in Volumes,
     web \in TierOutcomes, html \in TierOutcomes, synth \in TierOutcomes :
       PlayCall(intensity, volume, web, html, synth)

DeferredCallRuns ==
  \E web \in TierOutcomes, html \in TierOutcomes, synth \in TierOutcomes :
     RunJob(web, html, synth)

LoaderProceeds == \E outcome \in LoadOutcomes : loadSound(outcome)

NextSound ==
  \/ PlayCalled
  \/ DeferredCallRuns
  \/ LoaderProceeds

SpecSound == InitSounds /\ [][NextSound]_vars

(***************************************************************************)
(* SpecConfetti: the particle driver, called as the plugin calls it (a     *)
(* flush with 150 particles, the test buttons with 15 and 50; the duration *)
(* is the slider's), with frames of 200 or 400 ms, until the plugin is     *)
(* unloaded.  The platform may refuse the 2D context.                      *)
(***************************************************************************)
CallerCounts == {15, 50, 150}
Durations == {400, 800}
FrameSteps == {200, 400}
BurstConfigs(counts) ==
  [ particleCount : counts, duration : Durations ]

InitDriver(saved) ==
  InitPlugin(saved) /\ InitSound(TRUE) /\ (InitConfetti(TRUE) \/ InitConfetti(FALSE))

InitConfettis == InitDriver({EmptyMap})

BurstCalled ==
  \E config \in BurstConfigs(CallerCounts), gotContext \in BOOLEAN :
     burst(config, gotContext)

FrameRuns == \E id \in FrameIds, dt \in FrameSteps : animate(id, dt)

PluginUnloaded == onunload

NextConfetti ==
  \/ BurstCalled
  \/ FrameRuns
  \/ PluginUnloaded

SpecConfetti == InitConfettis /\ [][NextConfetti]_vars

\* the host runs every frame callback that is pending
SpecConfettiFair == SpecConfetti /\ WF_vars(FrameRuns)

(***************************************************************************)
(* SpecBurstApi: the particle driver, called with any particle count,      *)
(* zero included                                                           *)
(***************************************************************************)
ApiCounts == {0, 15, 150}

BurstCalledWithAnyCount ==
  \E config \in BurstConfigs(ApiCounts), gotContext \in BOOLEAN :
     burst(config, gotContext)

NextBurstApi ==
  \/ BurstCalledWithAnyCount
  \/ FrameRuns
  \/ PluginUnloaded

SpecBurstApi == InitConfettis /\ [][NextBurstApi]_vars

(***************************************************************************)
(* SpecClicks: boxes are clicked in the view (the click caches the box's   *)
(* coordinate) and toggled, in a file that is shown or hidden.             *)
(***************************************************************************)
ClickCoords == { Coord(7, 7) }

CheckboxClicked ==
  \E file \in Files, line \in Lines, coords \in ClickCoords :
     checkboxChange(file, line, coords)

BoxesToggledInView ==
  \E file \in Files, cache \in ToggleCaches, geo \in GeoViews :
     handleTaskMetadataChange(file, cache, geo)

\* a second passes (less when the merge timer is due before); the session is
\* one pause shorter than the others
PauseBetweenClicks == ticks + 1 < MaxTicks /\ Tick(1000)

MergeTimerFiresInView ==
  \E id \in TimerIds, geo \in GeoViews : processMergedEvents(id, FALSE, geo, "none")

NextClicks ==
  \/ CheckboxClicked
  \/ BoxesToggledInView
  \/ MergeTimerFiresInView
  \/ PauseBetweenClicks

SpecClicks ==
  /\ InitPlugin({EmptyMap})
  /\ InitSound(TRUE)
  /\ InitConfetti(TRUE)
  /\ [][NextClicks]_vars

(***************************************************************************)
(* SpecPreview: the settings tab is open; the switches and sliders are     *)
(* moved and the two test buttons are clicked.                             *)
(***************************************************************************)
VolumeSlid == \E value \in {0, 30, 100} : setVolume(value)

DurationSlid == \E value \in {400, 800, 1200} : setDuration(value)

NextPreview ==
  \/ SwitchFlipped
  \/ VolumeSlid
  \/ DurationSlid
  \/ testSingleCompletion
  \/ testBatchCompletion

SpecPreview ==
  /\ InitPlugin(SavedSwitches)
  /\ InitSound(TRUE)
  /\ InitConfetti(TRUE)
  /\ [][NextPreview]_vars

(***************************************************************************)
(* SpecTimings: starting from the default settings, texts are entered into *)
(* the three timing fields of the settings tab.                            *)
(***************************************************************************)
Entries ==
  { << >>,                                \* ""
    << "a", "b", "c" >>,                  \* "abc"
    << "5", "0" >>,                       \* "50"
    << "1", "0", "0" >>,                  \* "100"
    << "4", "9", "9" >>,                  \* "499"
    << "5", "0", "0" >>,                  \* "500"
    << "1", "0", "0", "0" >>,             \* "1000"
    << "1", "0", "0", "1" >>,             \* "1001"
    << "3", "0", "0", "0" >>,             \* "3000"
    << "3", "0", "0", "1" >>,             \* "3001"
    << "-", "3", "0", "0" >>,             \* "-300"
    << " ", "2", "5", "0" >>,             \* " 250"
    << "3", "0", "0", "a", "b", "c" >>,   \* "300abc"
    << "1", "0", "0", "0", ".", "5" >> }  \* "1000.5"

NextTimings ==
  \E field \in TimingFields, value \in Entries :
     setTiming(field.name, field.lo, field.hi, value)

SpecTimings ==
  /\ InitPlugin({EmptyMap})
  /\ InitSound(TRUE)
  /\ InitConfetti(TRUE)
  /\ [][NextTimings]_vars

(***************************************************************************)
(* SpecScenario: a file with tasks on lines 3, 5 and 7 is seen when the    *)
(* plugin is loaded; four seconds later (t = 0) line 3 is checked, at      *)
(* t = 100 line 5, at t = 420 line 3 is unchecked and checked again, at    *)
(* t = 1500 line 7 is checked.  The merge timers fire when they are due;   *)
(* the stored throttle varies, a driver may raise an exception, and the    *)
(* system may ask for reduced motion.  ticks counts the instants passed.   *)
(***************************************************************************)
ScenarioStart == StartTime + 4000
Instants == << StartTime, ScenarioStart, ScenarioStart + 100, ScenarioStart + 400,
               ScenarioStart + 420, ScenarioStart + 1500, ScenarioStart + 1800 >>

ScenarioView == [l \in {3, 5, 7} |-> NoCoords]

ScenarioCache(ticked) ==
  [ present |-> TRUE,
    listItems |-> << [line |-> 3, task |-> IF 3 \in ticked THEN "x" ELSE " "],
                     [line |-> 5, task |-> IF 5 \in ticked THEN "x" ELSE " "],
                     [line |-> 7, task |-> IF 7 \in ticked THEN "x" ELSE " "] >> ]

\* the boxes the host shows ticked
TickedLines ==
  IF "a.md" \notin DOMAIN docState THEN {}
  ELSE { l \in DOMAIN docState["a.md"] : docState["a.md"][l] }

\* the notifications: at which instant, what the host showed before (was the
\* file seen, which boxes were ticked, was line 3 unchecked before) and which
\* boxes are ticked now
Script ==
  << [at |-> 1, seen |-> FALSE, undone |-> FALSE, before |-> {}, after |-> {}],
     [at |-> 2, seen |-> TRUE, undone |-> FALSE, before |-> {}, after |-> {3}],
     [at |-> 3, seen |-> TRUE, undone |-> FALSE, before |-> {3}, after |-> {3, 5}],
     [at |-> 5, seen |-> TRUE, undone |-> FALSE, before |-> {3, 5}, after |-> {5}],
     [at |-> 5, seen |-> TRUE, undone |-> TRUE, before |-> {5}, after |-> {3, 5}],
     [at |-> 6, seen |-> TRUE, undone |-> TRUE, before |-> {3, 5}, after |-> {3, 5, 7}] >>

Applicable(step) ==
  /\ ticks = step.at - 1
  /\ step.seen = ("a.md" \in DOMAIN docState)
  /\ step.undone = (<< "a.md", 3 >> \in DOMAIN undoProtection)
  /\ TickedLines = step.before

ScenarioNotification ==
  \E i \in 1..Len(Script) :
     /\ Applicable(Script[i])
     /\ handleTaskMetadataChange("a.md", ScenarioCache(Script[i].after), ScenarioView)

\* the next instant comes when the notifications of this one are through
NextInstant ==
  /\ ticks + 1 < Len(Instants)
  /\ \A i \in 1..Len(Script) : ~Applicable(Script[i])
  /\ \A id \in DOMAIN timers : timers[id] > now
  /\ now' = EarliestDue(DOMAIN timers, Instants[ticks + 2])
  /\ now' = Instants[ticks + 2]
  /\ ticks' = ticks + 1
  /\ fx' = NoFx
  /\ UNCHANGED << loaded, settings, taskEventQueue, mergeTimer, timers,
                  lastFeedbackTime, undoProtection, taskStates,
                  recentTaskCoordinates, docState, lastUncheck, dropped,
                  lastAttempt, leftover >>
  /\ UNCHANGED soundVars
  /\ UNCHANGED confettiVars

ScenarioTimerFires ==
  \E id \in TimerIds, reducedMotion \in BOOLEAN, fault \in Faults :
     processMergedEvents(id, reducedMotion, ScenarioView, fault)

NextScenario ==
  \/ ScenarioNotification
  \/ NextInstant
  \/ ScenarioTimerFires

SpecScenario ==
  /\ InitPlugin({ [mergeWindowMs |-> 300, undoWindowMs |-> 1000, throttleMs |-> t] :
                    t \in {100, 250, 1000, 1400, 1401, 2000} })
  /\ InitSound(TRUE)
  /\ InitConfetti(TRUE)
  /\ [][NextScenario]_vars

(***************************************************************************)
(* SpecLife: boxes are toggled and the merge timers fire until the plugin  *)
(* is unloaded.  The stored throttle is longer than the merge window; both *)
(* outputs may be switched off; a driver may raise an exception.           *)
(***************************************************************************)
SavedGates ==
  { [throttleMs |-> 500],
    [throttleMs |-> 500, enableSound |-> FALSE, enableConfetti |-> FALSE] }

InitLife == InitPlugin(SavedGates) /\ InitSound(TRUE) /\ InitConfetti(TRUE)

NextLife ==
  \/ BoxesToggled
  \/ MergeTimerFires
  \/ LongPause
  \/ PluginUnloaded

SpecLife == InitLife /\ [][NextLife]_vars

(***************************************************************************)
(* SpecFlushFair: as SpecLife without unloading.  Boxes are toggled only   *)
(* while the clock can still reach the due time of the timer they start,   *)
(* so arrivals pause in the end; time does not stand still while it can    *)
(* advance, and the host runs a timer callback that is due.                *)
(***************************************************************************)
ArrivalsBeforePause == ticks < MaxTicks /\ BoxesToggled

NextFlush ==
  \/ ArrivalsBeforePause
  \/ MergeTimerFires
  \/ LongPause

SpecFlushFair ==
  /\ InitLife
  /\ [][NextFlush]_vars
  /\ WF_vars(LongPause)
  /\ WF_vars(MergeTimerFires)

(***************************************************************************)
(* What a step did, in terms of the host's document                        *)
(***************************************************************************)
Ticked(doc, f, l) == f \in DOMAIN doc /\ l \in DOMAIN doc[f] /\ doc[f][l]

\* line l of the tracked file f goes from unticked to ticked in this step
BoxChecked(f, l) ==
  /\ f \in DOMAIN docState /\ l \in DOMAIN docState[f] /\ ~docState[f][l]
  /\ Ticked(docState', f, l)

\* line l of the tracked file f goes from ticked to unticked in this step
BoxUnchecked(f, l) ==
  /\ Ticked(docState, f, l)
  /\ f \in DOMAIN docState' /\ l \in DOMAIN docState'[f] /\ ~docState'[f][l]

\* the step appended an event for line l of f to the pending batch
Enqueued(f, l) ==
  /\ Len(taskEventQueue') > Len(taskEventQueue)
  /\ \E i \in (Len(taskEventQueue) + 1)..Len(taskEventQueue') :
        /\ taskEventQueue'[i].file = f
        /\ taskEventQueue'[i].line = l
        /\ taskEventQueue'[i].timestamp = now

\* the step started a merge timer
TimerStarted ==
  /\ mergeTimer' \in DOMAIN timers'
  /\ timers'[mergeTimer'] = now + settings.mergeWindowMs
  /\ Cardinality(DOMAIN timers') = 1

SinceUncheck(f, l) == now - lastUncheck[<< f, l >>]
WasUnchecked(f, l) == lastUncheck[<< f, l >>] # 0

(***************************************************************************)
(* C1: a check of a line less than undoWindowMs after the most recent      *)
(* uncheck of that line is suppressed (no event is enqueued for it; when   *)
(* the notification holds no other check, no timer is started and nothing  *)
(* is dispatched); a check more than undoWindowMs after it is enqueued     *)
(* and a merge timer runs for it.                                          *)
(***************************************************************************)
C1_Suppressed(f, l) ==
  BoxChecked(f, l) /\ WasUnchecked(f, l) /\ SinceUncheck(f, l) < settings.undoWindowMs

C1_Step ==
  \A f \in Files :
    /\ \A l \in Lines : C1_Suppressed(f, l) => ~Enqueued(f, l)
    /\ ( /\ \E l \in Lines : C1_Suppressed(f, l)
         /\ \A l \in Lines : BoxChecked(f, l) => C1_Suppressed(f, l) )
       => /\ UNCHANGED << taskEventQueue, timers, mergeTimer, lastFeedbackTime >>
          /\ fx' = NoFx
    /\ \A l \in Lines :
         ( BoxChecked(f, l) /\ WasUnchecked(f, l)
           /\ SinceUncheck(f, l) > settings.undoWindowMs )
         => Enqueued(f, l) /\ TimerStarted

C1_UndoWindow == [][C1_Step]_vars

\* one line was re-checked inside the window and is not in the batch, another was
\* re-checked after the window and is
C1_Witness ==
  \E f \in Files, l1 \in Lines, l2 \in Lines :
    /\ Ticked(docState, f, l1) /\ WasUnchecked(f, l1)
    /\ SinceUncheck(f, l1) < settings.undoWindowMs
    /\ SinceUncheck(f, l1) < settings.mergeWindowMs
    /\ \A i \in 1..Len(taskEventQueue) :
          taskEventQueue[i].line = l1 =>
             taskEventQueue[i].timestamp < lastUncheck[<< f, l1 >>]
    /\ WasUnchecked(f, l2)
    /\ \E i \in 1..Len(taskEventQueue) :
          /\ taskEventQueue[i].line = l2
          /\ taskEventQueue[i].timestamp > lastUncheck[<< f, l2 >>] + settings.undoWindowMs

(***************************************************************************)
(* What the merge-timer callback that just ran found                       *)
(***************************************************************************)
CallbackRan == fx.op # "none"
BatchPending == Len(fx.batch) >= 1
LastArrival == fx.batch[Len(fx.batch)].timestamp

\* the events of the batch that arrived since the previous flush attempt
NewArrivals == SelectSeq(fx.batch, LAMBDA e : e.timestamp >= fx.prevAttempt)

C4_CleanupUnconditional ==
  /\ (CallbackRan /\ fx.threw) => (taskEventQueue = << >> /\ mergeTimer = Null)
  /\ CallbackRan =>
       \A i \in 1..Len(fx.batch) : fx.batch[i].timestamp >= fx.prevAttempt

(***************************************************************************)
(* C5: the first observation of a document only seeds the snapshot: no     *)
(* event, no timer, no ledger entry, whatever is ticked.  Afterwards an    *)
(* uncheck is detected (the ledger records it) and a check is detected     *)
(* (the snapshot follows, and the check is enqueued unless the undo        *)
(* window swallows it).                                                    *)
(***************************************************************************)
C5_Step ==
  \A f \in Files :
    /\ (f \notin DOMAIN docState /\ f \in DOMAIN docState') =>
          /\ UNCHANGED << taskEventQueue, timers, mergeTimer, undoProtection,
                          lastFeedbackTime >>
          /\ fx' = NoFx
          /\ f \in DOMAIN taskStates'
          /\ taskStates'[f] = docState'[f]
    /\ \A l \in Lines :
          BoxUnchecked(f, l) =>
             /\ << f, l >> \in DOMAIN undoProtection'
             /\ undoProtection'[<< f, l >>] = now
             /\ ~taskStates'[f][l]
    /\ \A l \in Lines :
          BoxChecked(f, l) =>
             /\ taskStates'[f][l]
             /\ Enqueued(f, l) \/ C1_Suppressed(f, l)

C5_FirstObservationSeeds == [][C5_Step]_vars

\* No batch was ever flushed, and the only pending event is a check of a line
\* after its uncheck: the line was ticked when the document was first observed.
C5_Witness ==
  /\ lastAttempt = 0
  /\ Len(taskEventQueue) = 1
  /\ \E f \in Files, l \in Lines :
        /\ taskEventQueue[1].line = l
        /\ WasUnchecked(f, l)
        /\ taskEventQueue[1].timestamp > lastUncheck[<< f, l >>]

(***************************************************************************)
(* C6: a notification for a tracked document in which the tasks only moved *)
(* to other line numbers (a line was inserted or removed above them), each *)
(* keeping its box as it was, enqueues no event, records no uncheck and    *)
(* starts no timer.                                                        *)
(***************************************************************************)
\* every task of f is reported k lines further down, its box unchanged
Renumbered(f, k) ==
  /\ f \in DOMAIN docState
  /\ f \in DOMAIN docState'
  /\ DOMAIN docState[f] # {}
  /\ DOMAIN docState'[f] = { l + k : l \in DOMAIN docState[f] }
  /\ \A l \in DOMAIN docState[f] : docState'[f][l + k] = docState[f][l]

C6_Step ==
  \A f \in Files, k \in {-1, 1} :
     Renumbered(f, k) =>
        UNCHANGED << taskEventQueue, undoProtection, timers, mergeTimer >>

C6_RenumberingTolerated == [][C6_Step]_vars

(***************************************************************************)
(* C7: a notification without metadata drops the snapshot of the document  *)
(* and touches nothing else; the next notification for the document is a   *)
(* first observation: it seeds the snapshot with the boxes as they are and *)
(* enqueues nothing, whatever is ticked.                                   *)
(***************************************************************************)
C7_Step ==
  \A f \in Files :
    /\ (f \in DOMAIN docState /\ f \notin DOMAIN docState') =>
          /\ f \notin DOMAIN taskStates'
          /\ UNCHANGED << taskEventQueue, timers, mergeTimer, undoProtection >>
    /\ (f \in dropped /\ f \notin DOMAIN docState /\ f \in DOMAIN docState') =>
          /\ f \in DOMAIN taskStates'
          /\ taskStates'[f] = docState'[f]
          /\ UNCHANGED << taskEventQueue, timers, mergeTimer, undoProtection >>

C7_MissingMetadataDrops == [][C7_Step]_vars

\* The document was dropped and is tracked again with a ticked box that was
\* never unchecked, and no event was ever enqueued: the box was ticked when
\* the document reappeared.
C7_Witness ==
  \E f \in Files :
     /\ f \in dropped
     /\ f \in DOMAIN docState
     /\ f \in DOMAIN taskStates
     /\ \E l \in DOMAIN docState[f] :
           docState[f][l] /\ taskStates[f][l] /\ lastUncheck[<< f, l >>] = 0
     /\ taskEventQueue = << >>
     /\ lastAttempt = 0

(***************************************************************************)
(* C8: at every flush of a pending batch that passes the throttle, the     *)
(* sound driver is called iff enableSound and not globalMute, and the      *)
(* particle driver is called iff enableConfetti, not disableConfetti and   *)
(* no reduced motion; neither depends on the other.                        *)
(***************************************************************************)
C8_IndependentGating ==
  (fx.op = "flush" /\ BatchPending) =>
    /\ fx.sound.called <=> (settings.enableSound /\ ~settings.globalMute)
    /\ fx.burst.called <=>
         (settings.enableConfetti /\ ~settings.disableConfetti /\ ~fx.reducedMotion)

\* a flush that played the sound while only disableConfetti held the burst back
C8_Witness ==
  /\ fx.op = "flush"
  /\ BatchPending
  /\ fx.sound.called
  /\ ~fx.burst.called
  /\ settings.enableConfetti
  /\ settings.disableConfetti
  /\ ~fx.reducedMotion

(***************************************************************************)
(* Play calls, by the caller's call number                                 *)
(***************************************************************************)
\* the calls made while asset loading was in flight
InFlight == { i \in 1..Len(requested) : requested[i].inFlight }

\* how many entries of the sequence q belong to call i
RECURSIVE Occurrences(_, _)
Occurrences(q, i) ==
  IF q = << >> THEN 0
  ELSE (IF Head(q).id = i THEN 1 ELSE 0) + Occurrences(Tail(q), i)

(***************************************************************************)
(* C9: a play call made while asset loading is in flight is not executed   *)
(* before loading settles and is not dropped: it is held in exactly one    *)
(* place (waiting on the loader, ready to run, or performed), so it is     *)
(* performed exactly once, after loading settled; the calls made during    *)
(* loading are performed in the order they were made.                      *)
(***************************************************************************)
C9_QueuedThenReplayed ==
  /\ loadPromise = "pending" =>
        \A k \in 1..Len(performed) : performed[k].id \notin InFlight
  /\ \A i \in InFlight :
        Occurrences(reactions, i) + Occurrences(jobs, i) + Occurrences(performed, i) = 1
  /\ (loadPromise = "fulfilled" /\ ~loading /\ jobs = << >>) =>
        \A i \in InFlight : Occurrences(performed, i) = 1
  /\ \A k, m \in 1..Len(performed) :
        (k < m /\ performed[k].id \in InFlight /\ performed[m].id \in InFlight)
           => performed[k].id < performed[m].id

\* two calls made during loading were both performed after it settled
C9_Witness ==
  /\ Len(requested) >= 2
  /\ requested[1].inFlight
  /\ requested[2].inFlight
  /\ loadPromise = "fulfilled"
  /\ Len(performed) = 2
  /\ performed[1].id = 1
  /\ performed[2].id = 2

(***************************************************************************)
(* C10: once loading has settled, a play call whose tier fails at play     *)
(* time falls through to the next tier until the synthesized tone is       *)
(* attempted: no performed call ends silent without the tone having been   *)
(* tried.                                                                  *)
(***************************************************************************)
C10_SynthAlwaysReached ==
  \A k \in 1..Len(performed) :
     \/ performed[k].sounded
     \/ \E t \in 1..Len(performed[k].tiers) : performed[k].tiers[t] = "synth"

(***************************************************************************)
(* What a step of the particle driver was                                  *)
(***************************************************************************)
\* a frame callback ran
FrameStep == bursts' = bursts /\ loaded' = loaded /\ frames' # frames
\* burst was called
BurstStep == bursts' = bursts + 1

(***************************************************************************)
(* C11: the overlay surface is attached only while particles are live, it  *)
(* is detached by the very frame in which the last particle expires, and   *)
(* whenever it is attached it is detached again later.                     *)
(***************************************************************************)
C11_Step ==
  /\ attached' => particles' > 0
  /\ (FrameStep /\ particles > 0 /\ particles' = 0) => ~attached'

C11_SurfaceWhileLive == [][C11_Step]_vars /\ (attached ~> ~attached)

(***************************************************************************)
(* C12: burst with particleCount = 0 attaches the surface and requests one *)
(* frame; that frame detaches the surface again and leaves no particles    *)
(* and no pending frame callback, however often the call is repeated.      *)
(***************************************************************************)
C12_Step ==
  /\ (BurstStep /\ particles' = 0) =>
        /\ attached'
        /\ animationFrame' \in DOMAIN frames'
        /\ DOMAIN frames' = {animationFrame'}
  /\ (FrameStep /\ particles = 0 /\ attached) =>
        /\ ~attached'
        /\ particles' = 0
        /\ frames' = EmptyMap
        /\ animationFrame' = Null

C12_EmptyBurst == [][C12_Step]_vars

(***************************************************************************)
(* C13: a burst called while the previous burst is still animating         *)
(* replaces the particle set (right after the call the live particles are  *)
(* the new particleCount, not a sum), leaves exactly one frame callback    *)
(* pending, that of the new loop, and keeps the surface; at no time is     *)
(* more than one frame callback pending.                                   *)
(***************************************************************************)
C13_Step ==
  /\ Cardinality(DOMAIN frames') <= 1
  /\ (BurstStep /\ lastBurst'.animating) =>
        /\ particles' = lastBurst'.particleCount
        /\ maxLife' = lastBurst'.duration
        /\ DOMAIN frames' = {animationFrame'}
        /\ frames'[animationFrame'] = 0
        /\ canvas' = canvas
        /\ surfaces' = surfaces
        /\ attached'

C13_BurstReplaces == [][C13_Step]_vars

\* a burst of 15 particles has just replaced 150 that were still animating
C13_Witness ==
  /\ lastBurst.animating
  /\ lastBurst.before = 150
  /\ lastBurst.particleCount = 15
  /\ particles = 15
  /\ animationFrame \in DOMAIN frames
  /\ frames[animationFrame] = 0
  /\ ctx

(***************************************************************************)
(* C14: when a check event is enqueued for a line whose box coordinate was *)
(* cached less than 1500 ms before, the event carries exactly that         *)
(* coordinate; if the cached coordinate is older, the event carries what   *)
(* the geometry lookup gives; either way the cache entry is gone           *)
(* afterwards, so a cached coordinate is used at most once.                *)
(***************************************************************************)
\* the event that this step appended for line l of f
NewEvents(f, l) ==
  { i \in (Len(taskEventQueue) + 1)..Len(taskEventQueue') :
      taskEventQueue'[i].file = f /\ taskEventQueue'[i].line = l }

C14_Step ==
  \A f \in Files, l \in Lines :
     \A i \in NewEvents(f, l) :
        LET key == << f, l >>
            event == taskEventQueue'[i]
        IN  /\ key \notin DOMAIN recentTaskCoordinates'
            /\ key \in DOMAIN recentTaskCoordinates =>
                  IF now - recentTaskCoordinates[key].timestamp < 1500
                  THEN event.coords = recentTaskCoordinates[key].coords
                  ELSE /\ event.coords \in { geo[l] : geo \in GeoViews }
                       /\ event.coords # recentTaskCoordinates[key].coords
            /\ key \notin DOMAIN recentTaskCoordinates =>
                  event.coords \in { geo[l] : geo \in GeoViews }

C14_CachedCoordinate == [][C14_Step]_vars

\* Two events are pending and no coordinate is cached any more: one carries
\* a clicked coordinate, the other, whose click was too old or never made,
\* the coordinate of the geometry lookup.
C14_Witness ==
  /\ Len(taskEventQueue) = 2
  /\ recentTaskCoordinates = EmptyMap
  /\ \E i, j \in 1..2 :
        /\ taskEventQueue[i].coords \in ClickCoords
        /\ taskEventQueue[j].coords = ShownView[taskEventQueue[j].line]

(***************************************************************************)
(* C15  Each test button gives the drivers the directives a flush would    *)
(* give them under the same settings: the "single" button those of a flush *)
(* of one event, the "batch" button those of a flush of five (same sound   *)
(* call or none, same burst call or none, same intensity, volume, particle *)
(* count and duration), whatever the system's motion preference is taken   *)
(* to be.                                                                  *)
(***************************************************************************)
TestRan == fx.op \in {"testSingle", "testBatch"}
TestCount == IF fx.op = "testSingle" THEN 1 ELSE 5

\* the calls a flush of count events makes, the origin of the burst aside
FlushDirectives(count, reducedMotion) ==
  LET out == triggerFeedback(getFeedbackProfile(count, reducedMotion),
                             << >>, HiddenView, "none")
  IN  [sound |-> out.sound, burst |-> [out.burst EXCEPT !.origin = NoOrigin]]

C15_TestsMatchFlush ==
  TestRan =>
    \E reducedMotion \in BOOLEAN :
       LET flush == FlushDirectives(TestCount, reducedMotion)
       IN  /\ fx.sound = flush.sound
           /\ fx.burst = flush.burst

(***************************************************************************)
(* C16  From the default settings on, whatever is entered into the timing  *)
(* fields, mergeWindowMs and throttleMs stay within 100..1000 and          *)
(* undoWindowMs within 500..3000, and an entry that is not a number, or is *)
(* a number outside the field's range, leaves the stored value as it was.  *)
(***************************************************************************)
DeclaredRange ==
  [ mergeWindowMs |-> [lo |-> 100, hi |-> 1000],
    throttleMs |-> [lo |-> 100, hi |-> 1000],
    undoWindowMs |-> [lo |-> 500, hi |-> 3000] ]

RECURSIVE dropBlanksAtEnd(_)
dropBlanksAtEnd(text) ==
  IF text # << >> /\ text[Len(text)] = " "
  THEN dropBlanksAtEnd(SubSeq(text, 1, Len(text) - 1))
  ELSE text

\* the entry read as a decimal numeral: blanks around it, a sign, digits and
\* possibly a point followed by digits
Numeral(text) ==
  LET t == dropBlanksAtEnd(skipBlanks(text))
      signed == t # << >> /\ Head(t) \in {"+", "-"}
      rest == IF signed THEN Tail(t) ELSE t
      whole == leadingDigits(rest)
      after == SubSeq(rest, Len(whole) + 1, Len(rest))
      fraction == IF after = << >> THEN << >> ELSE Tail(after)
  IN  [ ok |-> /\ whole # << >>
               /\ after # << >> =>
                     /\ Head(after) = "."
                     /\ fraction # << >>
                     /\ leadingDigits(fraction) = fraction,
        negative |-> signed /\ Head(t) = "-",
        whole |-> valueOf(whole, 0),
        hasFraction |-> \E i \in 1..Len(fraction) : fraction[i] # "0" ]

\* the entry is a number of lo..hi (both are positive)
NumberWithin(text, lo, hi) ==
  LET n == Numeral(text)
  IN  /\ n.ok
      /\ ~n.negative
      /\ lo <= n.whole
      /\ n.whole < hi \/ (n.whole = hi /\ ~n.hasFraction)

C16_Step ==
  /\ \A name \in DOMAIN DeclaredRange :
        settings'[name] \in DeclaredRange[name].lo .. DeclaredRange[name].hi
  /\ fx'.op = "edit" =>
        LET range == DeclaredRange[fx'.field]
        IN  ~NumberWithin(fx'.entry, range.lo, range.hi) =>
               settings'[fx'.field] = settings[fx'.field]

C16_TimingsValidated == [][C16_Step]_vars

(***************************************************************************)
(* C17  With a merge window of 300 ms and an undo window of 1000 ms: after *)
(* line 3 is checked at t = 0 and line 5 at t = 100, one timer is pending, *)
(* due at t = 400, and its callback finds the batch of lines 3 and 5 and   *)
(* dispatches it; unchecking and checking line 3 again at t = 420 queues   *)
(* nothing and starts no timer; checking line 7 at t = 1500 starts a timer *)
(* due at t = 1800 whose callback finds a batch of line 7 alone, which is  *)
(* dispatched if 1400 ms >= throttleMs and dropped otherwise.              *)
(***************************************************************************)
OneTimerDue(t) == DOMAIN timers = {mergeTimer} /\ timers[mergeTimer] = t
BatchLines == [i \in 1..Len(fx.batch) |-> fx.batch[i].line]

C17_Scenario ==
  /\ (ticks = 2 /\ TickedLines = {3, 5}) => OneTimerDue(ScenarioStart + 400)
  /\ (ticks = 3 /\ fx.op # "none") =>
        /\ fx.op = "flush"
        /\ BatchLines = << 3, 5 >>
        /\ timers = EmptyMap
  /\ ticks = 4 => timers = EmptyMap /\ Len(taskEventQueue) = leftover
  /\ (ticks = 5 /\ TickedLines = {3, 5, 7}) => OneTimerDue(ScenarioStart + 1800)
  /\ (ticks = 6 /\ fx.op # "none") =>
        /\ BatchLines = << 7 >>
        /\ timers = EmptyMap
        /\ fx.op = IF now - (ScenarioStart + 400) >= settings.throttleMs
                   THEN "flush" ELSE "throttled"

(***************************************************************************)
(* C18  After the callback of a merge timer that found a batch and passed  *)
(* the throttle, the batch is empty, the timer handle is null and          *)
(* lastFeedbackTime is the time of the callback, whether or not a driver   *)
(* was called; after one that the throttle dropped, the batch is empty,    *)
(* the handle is null and lastFeedbackTime is what it was.                 *)
(***************************************************************************)
C18_FlushBookkeeping ==
  /\ (fx.op = "flush" /\ BatchPending) =>
        /\ taskEventQueue = << >>
        /\ mergeTimer = Null
        /\ lastFeedbackTime = now
  /\ (fx.op = "throttled" /\ BatchPending) =>
        /\ taskEventQueue = << >>
        /\ mergeTimer = Null
        /\ lastFeedbackTime = fx.prevFlush

(***************************************************************************)
(* C19  Between handlers, events are pending exactly when the merge timer  *)
(* of the plugin is pending at the host.                                   *)
(***************************************************************************)
TimerOutstanding == mergeTimer # Null /\ mergeTimer \in DOMAIN timers

C19_BatchIffTimer == (taskEventQueue # << >>) <=> TimerOutstanding

(***************************************************************************)
(* C20  Every queued check event is consumed exactly once: once arrivals   *)
(* pause, a pending batch is eventually found by a merge-timer callback    *)
(* (which dispatches or drops it), and no callback dispatches an event     *)
(* that an earlier dispatch was already given.                             *)
(***************************************************************************)
C20_ConsumedOnce ==
  /\ [](fx.op = "flush" => fx.leftover = 0)
  /\ (taskEventQueue # << >>) ~> (fx.op \in {"flush", "throttled"} /\ BatchPending)

(***************************************************************************)
(* C21  At most one merge timer is pending at any time, and a step that    *)
(* queues a check event leaves exactly one: the timer of the plugin's      *)
(* handle, due mergeWindowMs after the step; the timer that was running    *)
(* before is gone.                                                         *)
(***************************************************************************)
QueueGrew == Len(taskEventQueue') > Len(taskEventQueue)

C21_Step ==
  /\ Cardinality(DOMAIN timers') <= 1
  /\ QueueGrew =>
        /\ DOMAIN timers' = {mergeTimer'}
        /\ timers'[mergeTimer'] = now + settings.mergeWindowMs

C21_OneMergeTimer == [][C21_Step]_vars

\* a second event was queued while the timer of the first was running: one
\* timer is pending, due a merge window after the second
C21_Witness ==
  /\ Len(taskEventQueue) = 2
  /\ taskEventQueue[1].timestamp < taskEventQueue[2].timestamp
  /\ taskEventQueue[2].timestamp - taskEventQueue[1].timestamp < settings.mergeWindowMs
  /\ DOMAIN timers = {mergeTimer}
  /\ timers[mergeTimer] = taskEventQueue[2].timestamp + settings.mergeWindowMs
  /\ leftover = 0

(***************************************************************************)
(* C22  A merge-timer callback that finds a batch runs at least            *)
(* mergeWindowMs after the last event of the batch arrived; each event of  *)
(* the batch arrived at most mergeWindowMs after the one before it; and    *)
(* none of them was already pending when an earlier callback ran.          *)
(***************************************************************************)
C22_QuietPeriod ==
  (CallbackRan /\ BatchPending) =>
    /\ now - LastArrival >= settings.mergeWindowMs
    /\ \A i \in 1..(Len(fx.batch) - 1) :
          /\ fx.batch[i].timestamp <= fx.batch[i + 1].timestamp
          /\ fx.batch[i + 1].timestamp - fx.batch[i].timestamp <= settings.mergeWindowMs
    /\ fx.leftover = 0

(***************************************************************************)
(* C23  A notification in which a box goes from ticked to unticked records *)
(* the current time in the ledger under that line's key and keeps every    *)
(* pending event; when no box of the file becomes ticked in it, the batch, *)
(* the merge timer and lastFeedbackTime are unchanged and nothing is       *)
(* dispatched.                                                             *)
(***************************************************************************)
C23_Step ==
  \A f \in Files :
    (\E l \in Lines : BoxUnchecked(f, l)) =>
      /\ \A l \in Lines :
            BoxUnchecked(f, l) =>
               /\ << f, l >> \in DOMAIN undoProtection'
               /\ undoProtection'[<< f, l >>] = now
      /\ Len(taskEventQueue') >= Len(taskEventQueue)
      /\ SubSeq(taskEventQueue', 1, Len(taskEventQueue)) = taskEventQueue
      /\ (\A l \in Lines : Ticked(docState', f, l) => Ticked(docState, f, l)) =>
            /\ UNCHANGED << taskEventQueue, timers, mergeTimer, lastFeedbackTime >>
            /\ fx' = NoFx

C23_UncheckOnlyRecords == [][C23_Step]_vars

\* a line whose check is still pending has just been unchecked: the event and
\* its timer are still there
C23_Witness ==
  \E f \in Files, l \in Lines :
    /\ f \in DOMAIN docState /\ l \in DOMAIN docState[f] /\ ~docState[f][l]
    /\ << f, l >> \in DOMAIN undoProtection
    /\ undoProtection[<< f, l >>] = now
    /\ Len(taskEventQueue) = 1
    /\ taskEventQueue[1].file = f /\ taskEventQueue[1].line = l
    /\ taskEventQueue[1].timestamp < now
    /\ TimerOutstanding
    /\ timers[mergeTimer] = taskEventQueue[1].timestamp + settings.mergeWindowMs

(***************************************************************************)
(* C24  After a step that inserts into the undo-protection ledger, the     *)
(* ledger holds no entry whose uncheck time lies more than twice           *)
(* undoWindowMs in the past.                                               *)
(***************************************************************************)
LedgerInsert ==
  \E k \in DOMAIN undoProtection' :
     k \notin DOMAIN undoProtection \/ undoProtection'[k] # undoProtection[k]

C24_Step ==
  LedgerInsert =>
    \A k \in DOMAIN undoProtection' :
       now - undoProtection'[k] <= 2 * settings.undoWindowMs

C24_LedgerEvicted == [][C24_Step]_vars

(***************************************************************************)
(* C25  While mergeWindowMs >= throttleMs, a merge-timer callback that     *)
(* finds a batch runs at least mergeWindowMs after the previous one that   *)
(* found a batch, and the throttle does not drop its batch.                *)
(***************************************************************************)
C25_NeverThrottled ==
  (CallbackRan /\ BatchPending /\ settings.mergeWindowMs >= settings.throttleMs) =>
    /\ fx.prevAttempt # 0 => now - fx.prevAttempt >= settings.mergeWindowMs
    /\ fx.op = "flush"

\* a second batch is flushed exactly one merge window after the first
C25_Witness ==
  /\ fx.op = "flush"
  /\ BatchPending
  /\ settings.mergeWindowMs >= settings.throttleMs
  /\ fx.prevAttempt # 0
  /\ now - fx.prevAttempt = settings.mergeWindowMs
  /\ now - fx.prevFlush < 2 * settings.throttleMs


(***************************************************************************)
(* C26: every play call terminates.  A deferred call is queued as a        *)
(* microtask only once the load promise has settled; when it comes to run, *)
(* the loading marker is clear, so that it plays directly and is not       *)
(* deferred again.  This covers the loader that finished without ever      *)
(* suspending, before the constructor stored its promise.                  *)
(***************************************************************************)
C26_DeferredRunsDirectly == jobs # << >> => ~loading


(***************************************************************************)
(* C27: in every state of the particle driver the overlay is attached only *)
(* while the frame callback of the current loop is pending (the callback   *)
(* that detaches the overlay once the particles have expired), also        *)
(* without a 2D context and after cleanup.                                 *)
(***************************************************************************)
C27_AttachedOnlyWhileAnimating == attached => animationFrame \in DOMAIN frames


(***************************************************************************)
(* C28: once the plugin is unloaded, no merge timer is left to fire and no *)
(* callback runs: no flush, no call of a driver, also when a batch was     *)
(* pending with its timer outstanding at the moment of onunload.           *)
(***************************************************************************)
C28_QuietAfterUnload == ~loaded => (timers = EmptyMap /\ ~CallbackRan)

\* unloaded with a batch pending, later than its timer would have fired
C28_Witness ==
  /\ ~loaded
  /\ taskEventQueue # << >>
  /\ mergeTimer # Null
  /\ now > taskEventQueue[Len(taskEventQueue)].timestamp + settings.mergeWindowMs
  /\ lastAttempt < taskEventQueue[1].timestamp


(***************************************************************************)
(* C29: a re-check that undo protection suppresses changes the snapshot of *)
(* its line and nothing else: the ledger entry and the cached coordinate   *)
(* of the line stay as they were and no event is queued for it; when the   *)
(* notification holds no other change, the ledger, the pending batch, the  *)
(* merge timer, lastFeedbackTime and the coordinate cache are unchanged.   *)
(* The check is not delivered later either: an event is queued for a line  *)
(* only in the step in which its box is ticked, and only when that check   *)
(* is not suppressed.                                                      *)
(***************************************************************************)
C29_OnlyChange(f, l) ==
  \A k \in Lines : k # l => Ticked(docState', f, k) = Ticked(docState, f, k)

C29_Step ==
  \A f \in Files, l \in Lines :
    /\ C1_Suppressed(f, l) =>
         /\ taskStates'[f][l]
         /\ << f, l >> \in DOMAIN undoProtection
         /\ undoProtection'[<< f, l >>] = undoProtection[<< f, l >>]
         /\ undoProtection[<< f, l >>] = lastUncheck[<< f, l >>]
         /\ NewEvents(f, l) = {}
         /\ << f, l >> \in DOMAIN recentTaskCoordinates =>
               /\ << f, l >> \in DOMAIN recentTaskCoordinates'
               /\ recentTaskCoordinates'[<< f, l >>] = recentTaskCoordinates[<< f, l >>]
         /\ C29_OnlyChange(f, l) =>
               UNCHANGED << undoProtection, taskEventQueue, timers, mergeTimer,
                            lastFeedbackTime, recentTaskCoordinates >>
    /\ NewEvents(f, l) # {} => BoxChecked(f, l) /\ ~C1_Suppressed(f, l)

C29_SuppressedCheckIsInert == [][C29_Step]_vars

\* a box was re-ticked 300 ms after it was unticked: the snapshot has it ticked,
\* the ledger entry is the uncheck's, the coordinate of the click is still
\* cached and the batch holds no event of the re-check
C29_Witness ==
  \E f \in Files, l \in Lines :
    /\ Ticked(docState, f, l) /\ taskStates[f][l]
    /\ WasUnchecked(f, l)
    /\ SinceUncheck(f, l) = settings.mergeWindowMs
    /\ SinceUncheck(f, l) < settings.undoWindowMs
    /\ undoProtection[<< f, l >>] = lastUncheck[<< f, l >>]
    /\ << f, l >> \in DOMAIN recentTaskCoordinates
    /\ recentTaskCoordinates[<< f, l >>].timestamp = now
    /\ \A i \in 1..Len(taskEventQueue) :
          taskEventQueue[i].line = l =>
             taskEventQueue[i].timestamp <= lastUncheck[<< f, l >>]


(***************************************************************************)
(* C30: on an observation of a tracked document, every reported line whose *)
(* box differs from the previous snapshot (a line the snapshot does not    *)
(* hold counts as unticked) is handled as a transition: a tick queues one  *)
(* event unless undo protection suppresses it, an untick is recorded in    *)
(* the ledger; the events are queued in the order of the lines.  No other  *)
(* line gets an event or a ledger record, the lines that are no longer     *)
(* reported included, and afterwards the snapshot holds exactly the lines  *)
(* of the notification with their boxes.                                   *)
(***************************************************************************)
C30_Step ==
  \A f \in Files :
    (f \in DOMAIN docState /\ f \in DOMAIN docState') =>
      /\ f \in DOMAIN taskStates /\ taskStates[f] = docState[f]
      /\ taskStates'[f] = docState'[f]
      /\ \A l \in Lines :
           LET key == << f, l >>
               reported == l \in DOMAIN docState'[f]
               was == Ticked(docState, f, l)
               is == Ticked(docState', f, l)
               recorded == /\ key \in DOMAIN undoProtection'
                           /\ (key \in DOMAIN undoProtection =>
                                 undoProtection'[key] # undoProtection[key])
           IN  /\ (reported /\ ~was /\ is) =>
                    /\ Cardinality(NewEvents(f, l)) =
                         IF WasUnchecked(f, l) /\ SinceUncheck(f, l) < settings.undoWindowMs
                         THEN 0 ELSE 1
                    /\ \A i \in NewEvents(f, l) : taskEventQueue'[i].timestamp = now
                    /\ ~recorded
               /\ (reported /\ was /\ ~is) =>
                    /\ key \in DOMAIN undoProtection' /\ undoProtection'[key] = now
                    /\ NewEvents(f, l) = {}
               /\ (~reported \/ was = is) => (NewEvents(f, l) = {} /\ ~recorded)
      /\ \A i, j \in (Len(taskEventQueue) + 1)..Len(taskEventQueue') :
            i < j => taskEventQueue'[i].line < taskEventQueue'[j].line

C30_SnapshotDiff == [][C30_Step]_vars

\* Both boxes were ticked in one notification and queued in the order of the
\* lines; line 0 has since left the document: the snapshot holds line 1 only,
\* and no uncheck of line 0 was recorded.
C30_Witness ==
  \E f \in Files :
    /\ f \in DOMAIN taskStates
    /\ DOMAIN taskStates[f] = {1}
    /\ Len(taskEventQueue) = 2
    /\ taskEventQueue[1].line = 0 /\ taskEventQueue[2].line = 1
    /\ taskEventQueue[1].timestamp = taskEventQueue[2].timestamp
    /\ lastUncheck[<< f, 0 >>] = 0 /\ lastUncheck[<< f, 1 >>] = 0
    /\ << f, 0 >> \notin DOMAIN undoProtection
    /\ now > taskEventQueue[2].timestamp


(***************************************************************************)
(* C31: the origin handed to the particle driver is the mean, in x and in  *)
(* y, of the coordinates of exactly those events of the batch that have    *)
(* one (the coordinate the event was queued with, or else the one the      *)
(* geometry lookup gives at the flush), and none when no event has one.  A *)
(* lookup that fails leaves its event without a coordinate and the         *)
(* dispatch goes on.                                                       *)
(***************************************************************************)
\* the sum of the values of the function over its domain
RECURSIVE C31_Sum(_)
C31_Sum(values) ==
  IF DOMAIN values = {} THEN 0
  ELSE LET i == CHOOSE j \in DOMAIN values : TRUE
       IN  values[i] + C31_Sum([j \in DOMAIN values \ {i} |-> values[j]])

\* the origin is the mean over the events that have a coordinate when the view
\* at the flush is geo
C31_MeanOfYielded(geo) ==
  LET batch == fx.batch
      at == [i \in 1..Len(batch) |->
               IF batch[i].coords.ok THEN batch[i].coords ELSE geo[batch[i].line]]
      yielded == { i \in 1..Len(batch) : at[i].ok }
      origin == fx.burst.origin
  IN  IF yielded = {} THEN ~origin.ok
      ELSE /\ origin.ok
           /\ origin.n = Cardinality(yielded)
           /\ origin.sumX = C31_Sum([i \in yielded |-> at[i].x])
           /\ origin.sumY = C31_Sum([i \in yielded |-> at[i].y])

C31_OriginIsMean ==
  (fx.op = "flush" /\ fx.burst.called) =>
     /\ ~fx.threw
     /\ \E geo \in GeoViews : C31_MeanOfYielded(geo)

\* a batch of two was dispatched with the file hidden: one event carried the
\* coordinate of its click, the other has none, and the origin is the click's
C31_Witness ==
  /\ fx.op = "flush" /\ fx.burst.called
  /\ Len(fx.batch) = 2
  /\ \E i, j \in 1..2 :
        /\ fx.batch[i].coords \in ClickCoords
        /\ ~fx.batch[j].coords.ok
        /\ fx.burst.origin = [ok |-> TRUE, sumX |-> fx.batch[i].coords.x,
                              sumY |-> fx.batch[i].coords.y, n |-> 1]


(***************************************************************************)
(* C32: whichever tier plays the sound of a call, the volume it applies is *)
(* the configured volume times 0.8, 1.0 or 1.2 for light, medium or heavy, *)
(* capped at full scale (volumes in thousandths).                          *)
(***************************************************************************)
C32_Scaled(intensity, volume) ==
  LET scaled == CASE intensity = "light" -> (volume * 4) \div 5
                  [] intensity = "medium" -> volume
                  [] intensity = "heavy" -> (volume * 6) \div 5
  IN  IF scaled > 1000 THEN 1000 ELSE scaled

C32_AppliedVolume ==
  \A k \in 1..Len(performed) :
     performed[k].sounded =>
        LET call == requested[performed[k].id]
        IN  /\ performed[k].applied = C32_Scaled(call.intensity, call.volume)
            /\ performed[k].applied <= 1000

=============================================================================
